---- MODULE Spec2Model ----
(***************************************************************************)
(* Runner lifecycle of lord-arbiter-backend: the worker thread of         *)
(* BotRunner.run (bot_runner.py), the process-wide registry               *)
(* running_threads (runner_registry.py) and the commands of dashboard.py  *)
(* that start, stop and delete a bot, for ONE bot id.  Workers of         *)
(* different bot ids share only the registry dict, whose entries are per  *)
(* id, and the bots table, whose rows are per id.                         *)
(*                                                                         *)
(* A worker handle is a threading.Thread object; handles are numbered     *)
(* 1..MaxWorkers in the order the threads are created and are never       *)
(* reused.  Each thread runs one BotRunner, so the runner's fields are    *)
(* indexed by the handle too.                                             *)
(*                                                                         *)
(* Interleaving: a step is one stretch of code between two points where   *)
(* another thread can observe or change shared state (a store statement   *)
(* that commits, a section under running_threads_lock).                   *)
(***************************************************************************)
EXTENDS Integers, FiniteSets, Sequences, TLC

\* ---------------------------------------------------------------- bounds
\* Number of worker threads the process may create for the bot id.
MaxWorkers == 2
\* Consecutive price-fetch failures the ticker may produce: when the backoff is
\* examined on its own, and during trading.
MaxRetries == 6
MaxOutage == 1
\* Ladder rungs of one ladder the market may fill.
MaxFills == 1

\* ------------------------------------------------------ program constants
poll_interval == 5
stop_check_interval == 5

Workers == 1..MaxWorkers
\* dict.get / "not in running_threads"
None == 0

\* bots.status values; "absent" is a deleted row.
Statuses == {"idle", "running", "stopping", "error"}

VARIABLES
    phase,              \* "boot" before lifespan has run, "serving" after
    status,             \* bots.status of the bot's row, or "absent"
    running_threads,    \* registry entry of the bot id: a handle or None
    delete_pc,          \* delete_bot: "none", or "row" between its two commits
    pc,                 \* position of each worker thread
    running,            \* BotRunner.running
    stop_event,         \* BotRunner.stop_event.is_set()
    db_status_on_exit,  \* BotRunner.db_status_on_exit
    since_stop_check,   \* now - last_stop_check, capped at stop_check_interval
    outcome,            \* how _run_logic ended
    status_write,       \* the last guarded UPDATE of a finally block: <<handle, result>>
    registry_cleanup,   \* the last registry clean-up: <<handle, branch taken>>
    replacement         \* handle the worker's auto-restart registered, or None

\* ---- one runner's poll iteration in detail (lines 297-404 of bot_runner.py)
VARIABLES
    bot,                \* BotRunner.bot: the bots row the runner was built from
    min_order_qty,      \* instrument lotSizeFilter.minOrderQty, a Decimal string
    tick_size,          \* instrument priceFilter.tickSize, a Decimal string
    at,                 \* position inside the trading part of the iteration
    price,              \* local price of _run_logic
    pos,                \* local pos of _run_logic
    error_retries,      \* local error_retries
    sleep_time,         \* the backoff sleep of the iteration's price failure, or 0
    rebuy_prices,       \* local list rebuy_prices
    rebuy_sizes,        \* local list rebuy_sizes
    prev_order_size,    \* BotRunner.prev_order_size
    last_tp_price,      \* BotRunner.last_tp_price
    tp_update,          \* the failed target update of the last management pass, if any
    market_order,       \* the runner's last market buy: not yet seen open, seen open, or none
    updated_position,   \* local updated_position of the entry branch
    calls,              \* exchange calls that change orders, made in this iteration
    exchange            \* the account at the exchange, for the bot's symbol

\* ---- the credentials of the bot's user (db.py 49-108, bot_runner.py 69-100)
VARIABLES
    time,                   \* time.time(), in seconds
    users,                  \* api_key/api_secret of the users row: a version
    user_keys_smart_cache,  \* db._user_keys_smart_cache._cache[user_id], or None
    user_keys_cache,        \* BotRunner._user_keys_cache[user_id], or None
    cache_call,             \* the last SmartCache call: <<method, result>>
    session_keys,           \* the last get_session of a runner: <<keys, read from>>
    live_set,               \* history: the last set not invalidated since, or None
    reauthenticated         \* history: login_user since the runners' last store read

\* ---- the commands and the supervisor in detail (dashboard.py, BotRunner.run)
VARIABLES
    running_threads_lock,   \* holder of runner_registry.running_threads_lock, or "free"
    start_pc,               \* position of a start_bot request
    bots_row,               \* the settings columns of the bots row: a version
    bot_data,               \* BotRunner.bot of each worker's runner, or None
    updated_bot_data,       \* run's SELECT after the cooldown: <<result, row>>
    boot_result             \* what lifespan did about the bot

lifecycle_vars == <<phase, status, running_threads, delete_pc, pc, running,
                    stop_event, db_status_on_exit, since_stop_check, outcome,
                    status_write, registry_cleanup, replacement>>

config_vars == <<bot, min_order_qty, tick_size>>

trading_vars == <<at, price, pos, error_retries, sleep_time, rebuy_prices,
                  rebuy_sizes, prev_order_size, last_tp_price, tp_update,
                  market_order, updated_position, calls, exchange>>

cache_vars == <<time, users, user_keys_smart_cache, user_keys_cache, cache_call,
                session_keys, live_set, reauthenticated>>
admin_vars == <<running_threads_lock, start_pc, bots_row, bot_data,
                updated_bot_data, boot_result>>
\* What the poll loop of a runner never writes.
fixed_vars == <<config_vars, cache_vars, admin_vars>>
detail_vars == <<fixed_vars, trading_vars>>
\* What the commands and run's supervisor never write.
rest_vars == <<config_vars, cache_vars, trading_vars>>

vars == <<lifecycle_vars, detail_vars>>

runner_vars == <<running, stop_event, db_status_on_exit, since_stop_check, outcome, status_write, registry_cleanup,
                 replacement>>

\* Positions inside _run_logic.
InSetup == {"setup"}
InPolling == {"wait", "check", "trade"}
InRunLogic == InSetup \cup InPolling
\* Positions inside the except clause of run (auto-restart).
InRestart == {"cooldown", "respawn"}
InCleanup == {"cleanup_db", "cleanup_registry"}

\* --------------------------------------------------- the runner's details
\* The bots row (CreateBotPayload): start_size in units, multiplier a rational,
\* take_profit and rebuy in percent, start_type the sizing mode.
OneBot == [start_size |-> 20, multiplier |-> <<2, 1>>, take_profit |-> 10,
           rebuy |-> 50, start_type |-> "USDT"]
StartTypes == {"USDT", "percent_equity"}
\* Last prices the ticker may report, and average prices of a position.
Prices == {40, 80}

\* get_position() returning None, and the dict it returns otherwise.
NoPosition == [fetched |-> FALSE, size |-> 0, avg_price |-> 0]
position(size, avg_price) ==
    [fetched |-> TRUE, size |-> size, avg_price |-> avg_price]

\* __init__ and the locals of _run_logic before the loop.
\* The last pass through the management branch had no failed target update.
NoUpdate == [result |-> "none", size |-> 0, avg_price |-> 0]

\* "TP update failed": set_trading_stop for the position p raised an error
\* other than "not modified"; any other outcome leaves nothing to record.
update(result, p) ==
    IF result = "error"
    THEN [result |-> result, size |-> p.size, avg_price |-> p.avg_price]
    ELSE NoUpdate

runner_locals_init ==
    /\ at = "price"
    /\ price = None
    /\ pos = NoPosition
    /\ error_retries = 0
    /\ sleep_time = 0
    /\ rebuy_prices = <<>>
    /\ rebuy_sizes = <<>>
    /\ prev_order_size = 0
    /\ last_tp_price = None
    /\ tp_update = NoUpdate
    /\ market_order = "none"
    /\ updated_position = NoPosition
    /\ calls = <<>>

\* The account, for the symbol: the open position (size 0: none) with its
\* take-profit, a market order not yet reflected in the position, and the
\* resting limit orders with the number of them already filled.
\* An empty SmartCache and an empty class-level dict, the users row at its first
\* pair of keys.
NoEntry == [cached |-> FALSE, data |-> None, expires_at |-> 0]
NoSet == [cached |-> FALSE, data |-> None, at |-> 0, ttl |-> 0]
cache_init ==
    /\ time = 0
    /\ users = 1
    /\ user_keys_smart_cache = NoEntry
    /\ user_keys_cache = None
    /\ cache_call = <<"none", None>>
    /\ session_keys = <<None, "none">>
    /\ live_set = NoSet
    /\ reauthenticated = FALSE

\* No request in progress, the row as created, no runner built yet.
NotRead == <<"none", None>>
\* The same with worker 1 built from the row and started after the boot.
one_runner_admin ==
    /\ running_threads_lock = "free"
    /\ start_pc = "none"
    /\ bots_row = 1
    /\ bot_data = [w \in Workers |-> IF w = 1 THEN 1 ELSE None]
    /\ updated_bot_data = [w \in Workers |-> NotRead]
    /\ boot_result = "nothing"

admin_init ==
    /\ running_threads_lock = "free"
    /\ start_pc = "none"
    /\ bots_row = 1
    /\ bot_data = [w \in Workers |-> None]
    /\ updated_bot_data = [w \in Workers |-> NotRead]
    /\ boot_result = "none"

flat_account ==
    [size |-> 0, avg_price |-> 0, take_profit |-> None,
     pending |-> 0, pending_tp |-> None,
     order_prices |-> <<>>, order_sizes |-> <<>>, filled |-> 0]

\* threading.Thread.is_alive(): started and run() has not returned.
is_alive(w) == pc[w] \notin {"unborn", "dead"}

HasFreeHandle == \E w \in Workers : pc[w] = "unborn"
\* The next thread object the process creates.
NewHandle == CHOOSE w \in Workers :
                 pc[w] = "unborn" /\ \A v \in Workers : v < w => pc[v] # "unborn"

Init ==
    /\ phase = "boot"
    /\ status \in Statuses
    /\ running_threads = None
    /\ delete_pc = "none"
    /\ pc = [w \in Workers |-> "unborn"]
    /\ running = [w \in Workers |-> TRUE]
    /\ stop_event = [w \in Workers |-> FALSE]
    /\ db_status_on_exit = [w \in Workers |-> "error"]
    /\ since_stop_check = [w \in Workers |-> stop_check_interval]
    /\ outcome = [w \in Workers |-> "none"]
    /\ status_write = <<None, "none">>
    /\ registry_cleanup = <<None, "none">>
    /\ replacement = [w \in Workers |-> None]
    /\ bot = OneBot
    /\ min_order_qty = <<1, -1>>
    /\ tick_size = <<1, -1>>
    /\ runner_locals_init
    /\ exchange = flat_account
    /\ cache_init
    /\ admin_init

\* ------------------------------------------------------------ the store
\* "UPDATE bots SET status = %s WHERE id = %s AND status IN ('running',
\* 'stopping', 'error')": the row's status after the statement.
unguarded_status_update(st, new) == new

guarded_status_update(st, new) ==
    IF st \in {"running", "stopping", "error"} THEN new ELSE st

\* check_stop_signal's test of the row it read: result and status = 'stopping'.
stop_requested_stopped(st) == st = "stopped"

stop_requested(st) == st = "stopping"

\* start_bot's two tests: the row is selected WHERE status = 'idle', and the
\* command is refused when a registered handle is alive.
start_allowed_unchecked(st, alive_registered) == st = "idle"

start_allowed(st, alive_registered) == st = "idle" /\ ~alive_registered

\* isinstance(running_threads[bot_id], BotRunner) in stop_bot and delete_bot.
\* Every value stored in running_threads is a threading.Thread (start_bot,
\* lifespan, BotRunner.run), never a BotRunner.
registered_is_BotRunner(h) == FALSE

\* ----------------------------------------------------------- the registry
\* "bot_id in running_threads and running_threads[bot_id].is_alive()"
registered_alive == running_threads # None /\ is_alive(running_threads)

\* The finally block's registry clean-up by the thread with handle w: the entry
\* after "if running_threads[id] == threading.current_thread(): pop".
pop_registry(reg, w) == None

keep_registry(reg, w) == reg

reconcile_registry(reg, w) == IF reg = w THEN None ELSE reg

\* runner = BotRunner(row); Thread(target=runner.run); running_threads[bot_id] =
\* thread; thread.start()
launch(w, row) ==
    /\ running_threads' = w
    /\ pc' = [pc EXCEPT ![w] = "setup"]
    /\ bot_data' = [bot_data EXCEPT ![w] = row]

\* ----------------------------------------------------------- the commands
bots_to_resume_any(st) == st # "absent"

\* "SELECT * FROM bots WHERE status = 'running'": the bot is among the rows.
bots_to_resume(st) == st = "running"

\* lifespan: resume the bots whose persisted status is running.  An error of
\* the store is caught and nothing is resumed.
lifespan ==
    /\ phase = "boot"
    /\ phase' = "serving"
    /\ \E read_ok \in BOOLEAN :
          IF read_ok /\ bots_to_resume(status) /\ ~registered_alive
          THEN /\ launch(NewHandle, bots_row)
               /\ boot_result' = "resumed"
          ELSE /\ UNCHANGED <<running_threads, pc, bot_data>>
               /\ boot_result' = IF ~read_ok THEN "read_failed"
                                 ELSE IF status = "running" THEN "skipped"
                                 ELSE "nothing"
    /\ UNCHANGED <<status, delete_pc, runner_vars>>
    /\ UNCHANGED <<running_threads_lock, start_pc, bots_row, updated_bot_data>>
    /\ UNCHANGED rest_vars

\* start_bot, the accepted command: the row is locked FOR UPDATE from the SELECT
\* to the commit and the registry lock is held from the is_alive test to
\* thread.start(), so no other step can fall in between.
start_bot ==
    /\ phase = "serving"
    /\ HasFreeHandle
    /\ start_allowed(status, registered_alive)
    /\ status' = "running"
    /\ launch(NewHandle, bots_row)
    /\ UNCHANGED <<phase, delete_pc, runner_vars>>
    /\ UNCHANGED <<running_threads_lock, start_pc, bots_row, updated_bot_data,
                   boot_result>>
    /\ UNCHANGED rest_vars

\* stop_bot: persist 'stopping', then signal the registered runner if the
\* registry value is a BotRunner.
stop_bot ==
    /\ phase = "serving"
    /\ status # "absent"
    /\ status' = "stopping"
    /\ stop_event' =
          IF running_threads # None /\ registered_is_BotRunner(running_threads)
          THEN [stop_event EXCEPT ![running_threads] = TRUE]
          ELSE stop_event
    /\ UNCHANGED <<phase, running_threads, delete_pc, pc, running,
                   db_status_on_exit, since_stop_check, outcome,
                   status_write, registry_cleanup, replacement>>
    /\ UNCHANGED detail_vars

\* delete_bot of a running or stopping bot, up to its first commit.  With a
\* BotRunner registered it sets the stop event and then fails on
\* current_thread().join (the transaction is rolled back); with any other
\* registered value it pops the entry.  Then status running/stopping -> idle.
delete_bot_stop ==
    /\ phase = "serving"
    /\ delete_pc = "none"
    /\ status \in {"running", "stopping"}
    /\ IF running_threads # None /\ registered_is_BotRunner(running_threads)
       THEN /\ stop_event' = [stop_event EXCEPT ![running_threads] = TRUE]
            /\ UNCHANGED <<running_threads, status, delete_pc>>
       ELSE /\ running_threads' = None
            /\ status' = "idle"
            /\ delete_pc' = "row"
            /\ UNCHANGED stop_event
    /\ UNCHANGED <<phase, pc, running, db_status_on_exit,
                   since_stop_check, outcome, status_write,
                   registry_cleanup, replacement>>
    /\ UNCHANGED detail_vars

\* delete_bot's DELETE statement and its commit: the second transaction of a
\* delete that stopped the bot first, or the only one for an idle/error bot.
delete_bot_row ==
    /\ phase = "serving"
    /\ \/ delete_pc = "row"
       \/ delete_pc = "none" /\ status \in {"idle", "error"}
    /\ status # "absent"
    /\ status' = "absent"
    /\ delete_pc' = "none"
    /\ UNCHANGED <<phase, running_threads, pc, runner_vars>>
    /\ UNCHANGED detail_vars

\* ------------------------------------------------------------- the worker
leave_loop(w, intention, how) ==
    /\ running' = [running EXCEPT ![w] = FALSE]
    /\ db_status_on_exit' = [db_status_on_exit EXCEPT ![w] = intention]
    /\ outcome' = [outcome EXCEPT ![w] = how]
    /\ pc' = [pc EXCEPT ![w] = "cleanup_db"]

stop_exit_error(w) == leave_loop(w, "error", "stop")

\* A stop observed in the loop: "self.running = False; self.db_status_on_exit =
\* 'idle'; break".
stop_exit(w) == leave_loop(w, "idle", "stop")

setup_failed_idle(w) == leave_loop(w, "idle", "setup_error")

\* A failed step of the setup: "self.running = False; self.db_status_on_exit =
\* 'error'; return".
setup_failed(w) == leave_loop(w, "error", "setup_error")

\* _run_logic up to the loop: session (credentials), leverage, instrument info.
\* Each failure is caught in place: running = False, exit intention error, return.
setup(w) ==
    /\ pc[w] = "setup"
    /\ \E result \in {"ok", "no_session", "leverage_error", "instrument_error"} :
          IF result = "ok"
          THEN /\ db_status_on_exit' = [db_status_on_exit EXCEPT ![w] = "idle"]
               /\ pc' = [pc EXCEPT ![w] = "wait"]
               /\ UNCHANGED <<running, outcome>>
          ELSE setup_failed(w)
    /\ UNCHANGED <<phase, status, running_threads, delete_pc, stop_event,
                   since_stop_check, status_write,
                   registry_cleanup, replacement>>
    /\ UNCHANGED detail_vars

\* "while self.running" and the fast path "if self.stop_event.wait(timeout=
\* self.poll_interval)": leave the loop, or time out after poll_interval.
wait_stop_event(w) ==
    /\ pc[w] = "wait"
    /\ IF ~running[w]
       THEN /\ pc' = [pc EXCEPT ![w] = "cleanup_db"]
            /\ UNCHANGED <<running, db_status_on_exit, outcome, since_stop_check>>
       ELSE IF stop_event[w]
       THEN /\ stop_exit(w)
            /\ UNCHANGED since_stop_check
       ELSE /\ pc' = [pc EXCEPT ![w] = "check"]
            /\ since_stop_check' =
                  [since_stop_check EXCEPT ![w] =
                      IF @ + poll_interval >= stop_check_interval
                      THEN stop_check_interval ELSE @ + poll_interval]
            /\ UNCHANGED <<running, db_status_on_exit, outcome>>
    /\ UNCHANGED <<phase, status, running_threads, delete_pc, stop_event, status_write, registry_cleanup, replacement>>
    /\ UNCHANGED detail_vars

\* The slow path: "if now - last_stop_check >= self.stop_check_interval" and
\* check_stop_signal.  A store error sets running = False and exit intention
\* error and returns False, so the iteration goes on.
check_stop_signal(w) ==
    /\ pc[w] = "check"
    /\ IF since_stop_check[w] < stop_check_interval
       THEN /\ pc' = [pc EXCEPT ![w] = "trade"]
            /\ UNCHANGED <<running, db_status_on_exit, outcome, stop_event,
                           since_stop_check>>
       ELSE IF stop_event[w]
       THEN /\ stop_exit(w)
            /\ UNCHANGED <<stop_event, since_stop_check>>
       ELSE \E read_ok \in BOOLEAN :
              IF ~read_ok
              THEN /\ running' = [running EXCEPT ![w] = FALSE]
                   /\ db_status_on_exit' = [db_status_on_exit EXCEPT ![w] = "error"]
                   /\ outcome' = [outcome EXCEPT ![w] = "store_error"]
                   /\ since_stop_check' = [since_stop_check EXCEPT ![w] = 0]
                   /\ pc' = [pc EXCEPT ![w] = "trade"]
                   /\ UNCHANGED stop_event
              ELSE IF stop_requested(status)
              THEN /\ stop_event' = [stop_event EXCEPT ![w] = TRUE]
                   /\ stop_exit(w)
                   /\ UNCHANGED since_stop_check
              ELSE /\ since_stop_check' = [since_stop_check EXCEPT ![w] = 0]
                   /\ pc' = [pc EXCEPT ![w] = "trade"]
                   /\ UNCHANGED <<running, db_status_on_exit, outcome, stop_event>>
    /\ UNCHANGED <<phase, status, running_threads, delete_pc, status_write, registry_cleanup, replacement>>
    /\ UNCHANGED detail_vars

\* The trading part of one iteration.  A failed price or position fetch
\* continues with the next iteration; the entry branch issues cancel-all, the
\* market order and the ladder; an exception is caught by the loop's own
\* handler: exit intention error, running = False, break.
trade(w) ==
    /\ pc[w] = "trade"
    /\ \E result \in {"price_error", "position_error", "manage", "entry",
                      "entry_raises", "raises"} :
          IF result \in {"entry_raises", "raises"}
          THEN leave_loop(w, "error", "loop_error")
          ELSE /\ pc' = [pc EXCEPT ![w] = "wait"]
               /\ UNCHANGED <<running, db_status_on_exit, outcome>>
    /\ UNCHANGED <<phase, status, running_threads, delete_pc, stop_event,
                   since_stop_check, status_write, registry_cleanup, replacement>>
    /\ UNCHANGED detail_vars

\* run's "except Exception": an exception that left _run_logic.  Every exchange
\* and store call of _run_logic sits in a handler of its own (see setup,
\* check_stop_signal and trade), so it is one raised by a statement outside
\* them or inside a handler.  Exit intention error, then sleep(5).
\* HasFreeHandle keeps the number of restarts within MaxWorkers.
except_handler(w) ==
    /\ pc[w] \in InRunLogic
    /\ HasFreeHandle
    /\ db_status_on_exit' = [db_status_on_exit EXCEPT ![w] = "error"]
    /\ outcome' = [outcome EXCEPT ![w] = "crash"]
    /\ pc' = [pc EXCEPT ![w] = "cooldown"]
    /\ UNCHANGED <<phase, status, running_threads, delete_pc, running,
                   stop_event, since_stop_check, status_write,
                   registry_cleanup, replacement>>
    /\ UNCHANGED detail_vars

restart_unless_stopping(read_ok, st) == read_ok /\ st \notin {"absent", "stopping"}

\* "if updated_bot_data:" after a SELECT that did not raise: the row exists,
\* whatever its status.
restart_decided(read_ok, st) == read_ok /\ st # "absent"

\* After the cooldown: "SELECT * FROM bots WHERE id = %s".  No row, or an error
\* of the store (caught), means no restart.
reload_bot(w) ==
    /\ pc[w] = "cooldown"
    /\ \E read_ok \in BOOLEAN :
          /\ pc' = [pc EXCEPT ![w] =
                       IF restart_decided(read_ok, status)
                       THEN "respawn" ELSE "cleanup_db"]
          /\ updated_bot_data' =
                [updated_bot_data EXCEPT ![w] =
                    IF ~read_ok THEN <<"error", None>>
                    ELSE IF status = "absent" THEN <<"no_row", None>>
                    ELSE <<"row", bots_row>>]
    /\ UNCHANGED <<phase, status, running_threads, delete_pc, runner_vars>>
    /\ UNCHANGED <<running_threads_lock, start_pc, bots_row, bot_data, boot_result>>
    /\ UNCHANGED rest_vars

\* The runner the replacement is built from: BotRunner(updated_bot_data).
stale_bot_data(w) == bot_data[w]

restart_bot_data(w) == updated_bot_data[w][2]

\* new_runner = BotRunner(updated_bot_data), new_thread; under the lock
\* running_threads[id] = new_thread; new_thread.start().
respawn(w) ==
    /\ pc[w] = "respawn"
    /\ HasFreeHandle
    /\ running_threads' = NewHandle
    /\ pc' = [pc EXCEPT ![NewHandle] = "setup", ![w] = "cleanup_db"]
    /\ bot_data' = [bot_data EXCEPT ![NewHandle] = restart_bot_data(w)]
    /\ replacement' = [replacement EXCEPT ![w] = NewHandle]
    /\ UNCHANGED <<phase, status, delete_pc, running, stop_event,
                   db_status_on_exit, since_stop_check, outcome,
                   status_write, registry_cleanup>>
    /\ UNCHANGED <<running_threads_lock, start_pc, bots_row, updated_bot_data,
                   boot_result>>
    /\ UNCHANGED rest_vars

cleanup_status_rearm(w) ==
    /\ pc[w] = "cleanup_db"
    /\ \E write_ok \in BOOLEAN :
          IF write_ok /\ status # "absent"
          THEN /\ status' = guarded_status_update(status, db_status_on_exit[w])
               /\ status_write' =
                     <<w, IF guarded_status_update(status, "written") = "written"
                          THEN "written" ELSE "skipped">>
          ELSE /\ status' = status
               /\ status_write' = <<w, IF write_ok THEN "skipped" ELSE "failed">>
    /\ pc' = [pc EXCEPT ![w] = "cleanup_registry"]
    /\ stop_event' = [stop_event EXCEPT ![w] = FALSE]
    /\ UNCHANGED <<phase, running_threads, delete_pc, running,
                   db_status_on_exit, since_stop_check, outcome,
                   registry_cleanup, replacement>>
    /\ UNCHANGED detail_vars

\* finally, first part: the guarded UPDATE of the status and its commit; an
\* error of the store is caught.
cleanup_status(w) ==
    /\ pc[w] = "cleanup_db"
    /\ \E write_ok \in BOOLEAN :
          IF write_ok /\ status # "absent"
          THEN /\ status' = guarded_status_update(status, db_status_on_exit[w])
               /\ status_write' =
                     <<w, IF guarded_status_update(status, "written") = "written"
                          THEN "written" ELSE "skipped">>
          ELSE /\ status' = status
               /\ status_write' = <<w, IF write_ok THEN "skipped" ELSE "failed">>
    /\ pc' = [pc EXCEPT ![w] = "cleanup_registry"]
    /\ UNCHANGED <<phase, running_threads, delete_pc, running, stop_event,
                   db_status_on_exit, since_stop_check, outcome,
                   registry_cleanup, replacement>>
    /\ UNCHANGED detail_vars

\* The thread has returned from run: nothing refers to its runner any more, and
\* the model keeps nothing of it.
forget_runner(w) ==
    /\ running' = [running EXCEPT ![w] = TRUE]
    /\ stop_event' = [stop_event EXCEPT ![w] = FALSE]
    /\ db_status_on_exit' = [db_status_on_exit EXCEPT ![w] = "error"]
    /\ since_stop_check' = [since_stop_check EXCEPT ![w] = stop_check_interval]
    /\ outcome' = [outcome EXCEPT ![w] = "none"]
    /\ replacement' = [replacement EXCEPT ![w] = None]
    /\ bot_data' = [bot_data EXCEPT ![w] = None]
    /\ updated_bot_data' = [updated_bot_data EXCEPT ![w] = NotRead]

\* finally, second part, under the lock: pop the entry only if it is this thread.
cleanup_registry(w) ==
    /\ pc[w] = "cleanup_registry"
    /\ running_threads' = reconcile_registry(running_threads, w)
    /\ registry_cleanup' = <<w, IF running_threads = None THEN "absent"
                                ELSE IF running_threads = w THEN "own"
                                ELSE "other">>
    /\ pc' = [pc EXCEPT ![w] = "dead"]
    /\ forget_runner(w)
    /\ UNCHANGED <<phase, status, delete_pc, status_write>>
    /\ UNCHANGED <<running_threads_lock, start_pc, bots_row, boot_result>>
    /\ UNCHANGED rest_vars

\* ================================================================ numbers
\* A price, a quantity or an amount is counted in units of 10^-Scale.  A value
\* the code holds as a float is a rational <<n, d>> of such units (d > 0, lowest
\* terms); a value read from the exchange or produced by format_qty /
\* format_price (a decimal string) is a whole number of units.  The binary
\* rounding of floats is not modelled.
Scale == 1
Unit == 10^Scale

RECURSIVE gcd(_, _)
gcd(a, b) == IF b = 0 THEN a ELSE gcd(b, a % b)

abs(n) == IF n >= 0 THEN n ELSE -n

norm(x) == LET g == gcd(abs(x[1]), x[2])
           IN  <<x[1] \div g, x[2] \div g>>

\* float(s) of a decimal string s.
float(v) == <<v, 1>>
\* a * b for a value a and a pure number b; a / b for two values a and b, the
\* result a value again (an amount over a price is a quantity).
mul(a, b) == norm(<<a[1] * b[1], a[2] * b[2]>>)
quot(a, b) == norm(<<a[1] * b[2] * Unit, a[2] * b[1]>>)
\* math.pow(b, e)
pow(b, e) == <<b[1]^e, b[2]^e>>
\* 1 + p / 100 and 1 - p / 100 for a percentage p.
one_plus_percent(p) == norm(<<100 + p, 100>>)
one_minus_percent(p) == norm(<<100 - p, 100>>)

\* A Decimal built from the exchange's string: <<coefficient, exponent>>, so
\* "0.1" is <<1, -1>>, "0.5" is <<5, -1>>, "1.0" is <<10, -1>>, "1" is <<1, 0>>.
step_value(step) == step[1] * 10^(Scale + step[2])
\* Decimal.quantize(step, rounding=ROUND_DOWN): the result has the EXPONENT of
\* step, whatever its coefficient, and is cut toward zero.
quantize(x, step) ==
    LET q == 10^(Scale + step[2])
        t == (abs(x[1]) \div (x[2] * q)) * q
    IN  IF x[1] >= 0 THEN t ELSE -t

\* ------------------------------------------------ the runner's arithmetic
max_rebuys == 23

format_qty(qty) == quantize(qty, min_order_qty)
format_price(p) == quantize(p, tick_size)

\* initial_qty = self.start_size / price: start_type is not read.
initial_qty(p) == quot(float(bot.start_size), float(p))
base_qty(p) == format_qty(initial_qty(p))
\* tp_price of the entry branch and of the management branch.
tp_price(p) == format_price(mul(float(p), one_plus_percent(bot.take_profit)))

rebuy_price_up(p, x) ==
    format_price(mul(float(p), pow(one_plus_percent(bot.rebuy), x + 1)))

\* The body of "for x in range(self.max_rebuys)".
rebuy_price(p, x) ==
    format_price(mul(float(p), pow(one_minus_percent(bot.rebuy), x + 1)))

rebuy_qty(p, x) ==
    format_qty(mul(initial_qty(p), pow(bot.multiplier, x + 1)))

\* list.clear()
keep(list) == list

clear(list) == <<>>

\* The lists after the loop has appended max_rebuys rungs.
append_rebuy_prices(list, p) ==
    list \o [i \in 1..max_rebuys |-> rebuy_price(p, i - 1)]
append_rebuy_sizes(list, p) ==
    list \o [i \in 1..max_rebuys |-> rebuy_qty(p, i - 1)]

\* chunk_list(data, size): the number of chunks.
chunk_count(len, size) == (len + size - 1) \div size

\* ===================================== the trading part of an iteration
\* The steps of one runner between "try:" (line 297) and the end of the
\* iteration, each up to its next exchange call, with the exchange as the
\* environment.  pc[w] = "trade" throughout; at is the place inside.
loop_frame ==
    UNCHANGED <<phase, status, running_threads, delete_pc, stop_event,
                since_stop_check, status_write, registry_cleanup, replacement>>

\* "continue", or the end of the iteration body: back to "while self.running".
next_iteration(w) ==
    /\ pc' = [pc EXCEPT ![w] = "wait"]
    /\ at' = "price"
    /\ UNCHANGED <<running, db_status_on_exit, outcome>>

\* On to "sleep(self.poll_interval)", the last statement of the iteration.
to_sleep ==
    /\ at' = "sleep"
    /\ UNCHANGED <<pc, running, db_status_on_exit, outcome>>

\* "except Exception as bot_loop_error": exit intention error, break.
loop_error(w) ==
    /\ leave_loop(w, "error", "loop_error")
    /\ at' = "price"

\* sleep_time = min(2 ** error_retries, 60)
backoff_uncapped(n) == 2^n

backoff(n) == IF 2^n < 60 THEN 2^n ELSE 60

\* get_price and its handler (lines 299-309).
get_price(w) ==
    /\ pc[w] = "trade"
    /\ at = "price"
    /\ \E fetched \in Prices \cup {None} :
          IF fetched = None
          THEN /\ error_retries' = error_retries + 1
               /\ sleep_time' = backoff(error_retries + 1)
               /\ next_iteration(w)
               /\ price' = None
          ELSE /\ price' = fetched
               /\ error_retries' = 0
               /\ sleep_time' = 0
               /\ at' = "position"
               /\ UNCHANGED <<pc, running, db_status_on_exit, outcome>>
    /\ UNCHANGED <<pos, rebuy_prices, rebuy_sizes, prev_order_size,
                   last_tp_price, tp_update, market_order, updated_position, calls, exchange>>
    /\ UNCHANGED fixed_vars
    /\ loop_frame

\* The market buy after a fetch that returned a position of this size: seen
\* open, or, when seen closed after it had been seen open, done with.
observed(order, size) ==
    IF size > 0 THEN IF order = "none" THEN order ELSE "open"
    ELSE IF order = "open" THEN "none" ELSE order

after_position_error_counted(n) == n + 1

\* error_retries after "if pos is None: sleep(1); continue": the handler of a
\* failed position fetch does not assign it.
after_position_error(n) == n

\* get_position and "if pos is None: sleep(1); continue"; then the branch on
\* pos["size"] == 0.
get_position(w) ==
    /\ pc[w] = "trade"
    /\ at = "position"
    /\ \E fetched \in BOOLEAN :
          IF ~fetched
          THEN /\ pos' = NoPosition
               /\ price' = None
               /\ UNCHANGED market_order
               /\ error_retries' = after_position_error(error_retries)
               /\ next_iteration(w)
          ELSE /\ pos' = position(exchange.size, exchange.avg_price)
               /\ market_order' = observed(market_order, exchange.size)
               /\ at' = IF exchange.size = 0 THEN "entry" ELSE "manage"
               /\ UNCHANGED <<price, pc, running, db_status_on_exit, outcome,
                              error_retries>>
    /\ UNCHANGED <<sleep_time, rebuy_prices, rebuy_sizes,
                   prev_order_size, last_tp_price, tp_update, updated_position, calls,
                   exchange>>
    /\ UNCHANGED fixed_vars
    /\ loop_frame

\* Entry branch, lines 319-336: clear the lists, size the entry, compute the
\* ladder, cancel_all_orders.
entry_cancel(w) ==
    /\ pc[w] = "trade"
    /\ at = "entry"
    /\ rebuy_prices' = append_rebuy_prices(clear(rebuy_prices), price)
    /\ rebuy_sizes' = append_rebuy_sizes(clear(rebuy_sizes), price)
    /\ calls' = Append(calls, "cancel_all_orders")
    /\ tp_update' = NoUpdate
    /\ \E raised \in BOOLEAN :
          IF raised
          THEN /\ loop_error(w)
               /\ UNCHANGED exchange
          ELSE /\ exchange' = [exchange EXCEPT !.pending = 0,
                                               !.pending_tp = None,
                                               !.order_prices = <<>>,
                                               !.order_sizes = <<>>,
                                               !.filled = 0]
               /\ at' = "market"
               /\ UNCHANGED <<pc, running, db_status_on_exit, outcome>>
    /\ UNCHANGED <<price, pos, error_retries, sleep_time, prev_order_size,
                   last_tp_price, market_order, updated_position>>
    /\ UNCHANGED fixed_vars
    /\ loop_frame

\* Lines 338-346: the market buy with the take-profit attached, sleep(2),
\* prev_order_size = base_qty.
entry_market(w) ==
    /\ pc[w] = "trade"
    /\ at = "market"
    /\ calls' = Append(calls, "place_order")
    /\ \E raised \in BOOLEAN :
          IF raised
          THEN /\ loop_error(w)
               /\ UNCHANGED <<exchange, prev_order_size, market_order>>
          ELSE /\ exchange' = [exchange EXCEPT !.pending = base_qty(price),
                                               !.pending_tp = tp_price(price)]
               /\ prev_order_size' = base_qty(price)
               /\ market_order' = "submitted"
               /\ at' = "refetch"
               /\ UNCHANGED <<pc, running, db_status_on_exit, outcome>>
    /\ UNCHANGED <<price, pos, error_retries, sleep_time, rebuy_prices,
                   rebuy_sizes, last_tp_price, tp_update, updated_position>>
    /\ UNCHANGED fixed_vars
    /\ loop_frame

position_opened_unchecked(got) == TRUE

\* "if updated_position and updated_position['size'] > 0"
position_opened(got) == got.fetched /\ got.size > 0

\* Lines 348-349 and 364-365: the position re-fetched after the market buy.
entry_refetch(w) ==
    /\ pc[w] = "trade"
    /\ at = "refetch"
    /\ \E fetched \in BOOLEAN :
          LET got == IF fetched
                     THEN position(exchange.size, exchange.avg_price)
                     ELSE NoPosition
          IN  /\ updated_position' = got
              /\ market_order' = IF got.fetched
                                 THEN observed(market_order, got.size)
                                 ELSE market_order
              /\ IF position_opened(got)
                 THEN /\ at' = "ladder"
                      /\ UNCHANGED <<pc, running, db_status_on_exit, outcome>>
                 ELSE to_sleep
    /\ UNCHANGED <<price, pos, error_retries, sleep_time, rebuy_prices,
                   rebuy_sizes, prev_order_size, last_tp_price, tp_update, calls, exchange>>
    /\ UNCHANGED fixed_vars
    /\ loop_frame

\* Lines 350-363: the ladder as limit orders, in chunks of 10, one
\* place_batch_order per chunk; sent is the number of calls that returned.
entry_ladder(w) ==
    /\ pc[w] = "trade"
    /\ at = "ladder"
    /\ LET rungs == IF Len(rebuy_sizes) < Len(rebuy_prices)
                    THEN Len(rebuy_sizes) ELSE Len(rebuy_prices)
           chunks == chunk_count(rungs, 10)
       IN  \E sent \in 0..chunks :
              LET placed == IF sent * 10 < rungs THEN sent * 10 ELSE rungs
                  issued == IF sent < chunks THEN sent + 1 ELSE sent
              IN  /\ calls' = calls \o [i \in 1..issued |-> "place_batch_order"]
                  /\ exchange' =
                        [exchange EXCEPT
                            !.order_prices = @ \o SubSeq(rebuy_prices, 1, placed),
                            !.order_sizes = @ \o SubSeq(rebuy_sizes, 1, placed)]
                  /\ IF sent < chunks
                     THEN loop_error(w)
                     ELSE to_sleep
    /\ UNCHANGED <<price, pos, error_retries, sleep_time, rebuy_prices,
                   rebuy_sizes, prev_order_size, last_tp_price, tp_update, market_order,
                   updated_position>>
    /\ UNCHANGED fixed_vars
    /\ loop_frame

\* What set_trading_stop can answer: nothing to set on a closed position, "not
\* modified" for the take-profit already in force.
set_trading_stop_results(tp) ==
    IF exchange.size = 0 THEN {"error"}
    ELSE IF exchange.take_profit = tp THEN {"not_modified", "error"}
    ELSE {"ok", "error"}

\* prev_order_size after the growth branch whose target update ended with
\* result: "self.prev_order_size = pos['size']" follows the try/except.
observed_size_on_success(result, size, prev) == IF result = "ok" THEN size ELSE prev

observed_size(result, size, prev) == size

target_changed_always(tp, last) == TRUE

\* "if tp_price != self.last_tp_price"
target_changed(tp, last) == tp # last

\* Management branch, lines 367-391.
manage(w) ==
    /\ pc[w] = "trade"
    /\ at = "manage"
    /\ IF pos.size > prev_order_size
       THEN IF target_changed(tp_price(pos.avg_price), last_tp_price)
               THEN /\ calls' = Append(calls, "set_trading_stop")
                    /\ \E result \in set_trading_stop_results(tp_price(pos.avg_price)) :
                          /\ tp_update' = update(result, pos)
                          /\ prev_order_size' =
                                observed_size(result, pos.size, prev_order_size)
                          /\ IF result = "ok"
                             THEN /\ last_tp_price' = tp_price(pos.avg_price)
                                  /\ exchange' =
                                        [exchange EXCEPT
                                            !.take_profit = tp_price(pos.avg_price)]
                             ELSE UNCHANGED <<last_tp_price, exchange>>
               ELSE /\ tp_update' = update("unchanged", pos)
                    /\ prev_order_size' =
                          observed_size("unchanged", pos.size, prev_order_size)
                    /\ UNCHANGED <<calls, last_tp_price, exchange>>
       ELSE /\ tp_update' = update("none", pos)
            /\ UNCHANGED <<prev_order_size, calls, last_tp_price, exchange>>
    /\ to_sleep
    /\ UNCHANGED <<price, pos, error_retries, sleep_time, rebuy_prices,
                   rebuy_sizes, market_order, updated_position>>
    /\ UNCHANGED fixed_vars
    /\ loop_frame

\* "sleep(self.poll_interval)" (line 397): the iteration is over.  price, pos
\* and updated_position are assigned again before they are next read, and the
\* record of the iteration's calls starts anew.
end_of_iteration(w) ==
    /\ pc[w] = "trade"
    /\ at = "sleep"
    /\ next_iteration(w)
    /\ price' = None
    /\ pos' = NoPosition
    /\ updated_position' = NoPosition
    /\ calls' = <<>>
    /\ UNCHANGED <<error_retries, sleep_time, rebuy_prices, rebuy_sizes,
                   prev_order_size, last_tp_price, tp_update, market_order, exchange>>
    /\ UNCHANGED fixed_vars
    /\ loop_frame

\* ------------------------------------------------------------ the market
\* The market buy shows in the position, at one of the prices.
fill_market ==
    /\ exchange.pending > 0
    /\ \E avg \in Prices :
          exchange' = [exchange EXCEPT !.size = @ + exchange.pending,
                                       !.avg_price = avg,
                                       !.take_profit = exchange.pending_tp,
                                       !.pending = 0,
                                       !.pending_tp = None]
    /\ UNCHANGED <<lifecycle_vars, fixed_vars, at, price, pos, error_retries,
                   sleep_time, rebuy_prices, rebuy_sizes, prev_order_size,
                   last_tp_price, tp_update, market_order, updated_position, calls>>

\* The next resting limit order is filled.
fill_rung ==
    /\ exchange.filled < Len(exchange.order_sizes)
    /\ exchange.filled < MaxFills
    /\ \E avg \in Prices :
          exchange' = [exchange EXCEPT
                          !.size = @ + exchange.order_sizes[exchange.filled + 1],
                          !.avg_price = avg,
                          !.filled = @ + 1]
    /\ UNCHANGED <<lifecycle_vars, fixed_vars, at, price, pos, error_retries,
                   sleep_time, rebuy_prices, rebuy_sizes, prev_order_size,
                   last_tp_price, tp_update, market_order, updated_position, calls>>

\* The take-profit is hit, or the position is closed by hand.
close_position ==
    /\ exchange.size > 0
    /\ exchange' = [exchange EXCEPT !.size = 0, !.avg_price = 0,
                                    !.take_profit = None]
    /\ UNCHANGED <<lifecycle_vars, fixed_vars, at, price, pos, error_retries,
                   sleep_time, rebuy_prices, rebuy_sizes, prev_order_size,
                   last_tp_price, tp_update, market_order, updated_position, calls>>

\* ------------------------------------------------------- specifications
Next ==
    \/ lifespan
    \/ start_bot
    \/ stop_bot
    \/ delete_bot_stop
    \/ delete_bot_row
    \/ \E w \in Workers : setup(w)
    \/ \E w \in Workers : wait_stop_event(w)
    \/ \E w \in Workers : check_stop_signal(w)
    \/ \E w \in Workers : trade(w)
    \/ \E w \in Workers : except_handler(w)
    \/ \E w \in Workers : reload_bot(w)
    \/ \E w \in Workers : respawn(w)
    \/ \E w \in Workers : cleanup_status(w)
    \/ \E w \in Workers : cleanup_registry(w)

Spec == Init /\ [][Next]_vars

\* Every command and step except delete_bot.
NextNoDelete ==
    \/ lifespan
    \/ start_bot
    \/ stop_bot
    \/ \E w \in Workers : setup(w)
    \/ \E w \in Workers : wait_stop_event(w)
    \/ \E w \in Workers : check_stop_signal(w)
    \/ \E w \in Workers : trade(w)
    \/ \E w \in Workers : except_handler(w)
    \/ \E w \in Workers : reload_bot(w)
    \/ \E w \in Workers : respawn(w)
    \/ \E w \in Workers : cleanup_status(w)
    \/ \E w \in Workers : cleanup_registry(w)

SpecNoDelete == Init /\ [][NextNoDelete]_vars

\* One runner that has passed its setup, alone with the exchange: the poll loop
\* with its trading part in detail, and the stop command.
InitTrading ==
    /\ phase = "serving"
    /\ status = "running"
    /\ running_threads = 1
    /\ delete_pc = "none"
    /\ pc = [w \in Workers |-> IF w = 1 THEN "wait" ELSE "unborn"]
    /\ running = [w \in Workers |-> TRUE]
    /\ stop_event = [w \in Workers |-> FALSE]
    /\ db_status_on_exit = [w \in Workers |-> IF w = 1 THEN "idle" ELSE "error"]
    /\ since_stop_check = [w \in Workers |-> stop_check_interval]
    /\ outcome = [w \in Workers |-> "none"]
    /\ status_write = <<None, "none">>
    /\ registry_cleanup = <<None, "none">>
    /\ replacement = [w \in Workers |-> None]
    /\ bot \in {[OneBot EXCEPT !.start_type = t] : t \in StartTypes}
    /\ min_order_qty = <<1, -1>>
    /\ tick_size = <<1, -1>>
    /\ runner_locals_init
    /\ exchange = flat_account
    /\ cache_init
    /\ one_runner_admin

\* The ticker fails at most MaxOutage times in a row.
NextTrading ==
    \/ \E w \in Workers : wait_stop_event(w)
    \/ \E w \in Workers : check_stop_signal(w)
    \/ \E w \in Workers : get_price(w) /\ error_retries' <= MaxOutage
    \/ \E w \in Workers : get_position(w)
    \/ \E w \in Workers : entry_cancel(w)
    \/ \E w \in Workers : entry_market(w)
    \/ \E w \in Workers : entry_refetch(w)
    \/ \E w \in Workers : entry_ladder(w)
    \/ \E w \in Workers : manage(w)
    \/ \E w \in Workers : end_of_iteration(w)
    \/ fill_market
    \/ fill_rung
    \/ close_position

SpecTrading == InitTrading /\ [][NextTrading]_vars

\* The same runner while no order of its account is filled and the ticker fails
\* up to MaxRetries times in a row.
NextBackoff ==
    \/ \E w \in Workers : wait_stop_event(w)
    \/ \E w \in Workers : check_stop_signal(w)
    \/ \E w \in Workers : get_price(w) /\ error_retries' <= MaxRetries
    \/ \E w \in Workers : get_position(w)
    \/ \E w \in Workers : entry_cancel(w)
    \/ \E w \in Workers : entry_market(w)
    \/ \E w \in Workers : entry_refetch(w)
    \/ \E w \in Workers : end_of_iteration(w)

SpecBackoff == InitTrading /\ [][NextBackoff]_vars

\* The loop "for x in range(self.max_rebuys)" (lines 329-333) pass by pass:
\* pass x appends rung x + 1 to both lists.
rebuy_loop_body(w) ==
    /\ pc[w] = "trade"
    /\ at = "entry"
    /\ Len(rebuy_prices) < max_rebuys
    /\ rebuy_prices' = Append(rebuy_prices, rebuy_price(price, Len(rebuy_prices)))
    /\ rebuy_sizes' = Append(rebuy_sizes, rebuy_qty(price, Len(rebuy_sizes)))
    /\ UNCHANGED <<pc, running, db_status_on_exit, outcome, at, price, pos,
                   error_retries, sleep_time, prev_order_size, last_tp_price, tp_update, market_order,
                   updated_position, calls, exchange>>
    /\ UNCHANGED fixed_vars
    /\ loop_frame

\* Configurations with multiplier > 1 and rebuy > 0 (CreateBotPayload takes any
\* float, also a rebuy above 100), and the steps "0.1", "0.5" and "1" an
\* instrument can have.
Rebuys == {10, 50, 150}
Multipliers == {<<2, 1>>, <<3, 2>>}
Steps == {<<1, -1>>, <<5, -1>>, <<1, 0>>}
MaxRungs == 6

\* A runner in the entry branch, the lists just cleared (line 321), for every
\* configuration, instrument and price.
InitLadder ==
    /\ phase = "serving"
    /\ status = "running"
    /\ running_threads = 1
    /\ delete_pc = "none"
    /\ pc = [w \in Workers |-> IF w = 1 THEN "trade" ELSE "unborn"]
    /\ running = [w \in Workers |-> TRUE]
    /\ stop_event = [w \in Workers |-> FALSE]
    /\ db_status_on_exit = [w \in Workers |-> IF w = 1 THEN "idle" ELSE "error"]
    /\ since_stop_check = [w \in Workers |-> 0]
    /\ outcome = [w \in Workers |-> "none"]
    /\ status_write = <<None, "none">>
    /\ registry_cleanup = <<None, "none">>
    /\ replacement = [w \in Workers |-> None]
    /\ bot \in {[OneBot EXCEPT !.rebuy = r, !.multiplier = m] :
                    r \in Rebuys, m \in Multipliers}
    /\ min_order_qty \in Steps
    /\ tick_size \in Steps
    /\ at = "entry"
    /\ price \in Prices
    /\ pos = position(0, 0)
    /\ error_retries = 0
    /\ sleep_time = 0
    /\ rebuy_prices = <<>>
    /\ rebuy_sizes = <<>>
    /\ prev_order_size = 0
    /\ last_tp_price = None
    /\ tp_update = NoUpdate
    /\ market_order = "none"
    /\ updated_position = NoPosition
    /\ calls = <<>>
    /\ exchange = flat_account
    /\ cache_init
    /\ one_runner_admin

\* The first MaxRungs passes of the loop.
NextLadder ==
    \E w \in Workers : rebuy_loop_body(w) /\ Len(rebuy_prices') <= MaxRungs

SpecLadder == InitLadder /\ [][NextLadder]_vars

\* ============================================ the credentials of a user
\* One user id.  The keys of the users row are a version number; time is
\* time.time() in seconds.
MaxTime == 700
MaxKeys == 2
Ticks == {100, 200}
Keys == 1..MaxKeys
\* CacheEntry.__init__ and SmartCache.set: "ttl_seconds: int = 300"; no caller
\* passes another value.
ttl_seconds == 300

cache_frame ==
    UNCHANGED <<lifecycle_vars, config_vars, trading_vars, admin_vars>>

\* CacheEntry(data, ttl_seconds)
CacheEntry(data, ttl) ==
    [cached |-> TRUE, data |-> data, expires_at |-> time + ttl]

fresh_inclusive(entry) == entry.cached /\ time <= entry.expires_at

\* "if entry and time.time() < entry.expires_at"
fresh(entry) == entry.cached /\ time < entry.expires_at

\* SmartCache.get, under the lock (db.py 59-64).
smart_cache_get ==
    /\ cache_call' = <<"get", IF fresh(user_keys_smart_cache)
                              THEN user_keys_smart_cache.data ELSE None>>
    /\ UNCHANGED <<time, users, user_keys_smart_cache, user_keys_cache,
                   session_keys, live_set, reauthenticated>>
    /\ cache_frame

\* SmartCache.set, under the lock (db.py 66-68), as db.get_user_keys calls it
\* with the pair it has read from the users row after its get missed: other
\* callers run between its get, its SELECT and its set, so the pair is the
\* row's or an earlier one.
smart_cache_set ==
    /\ \E data \in 1..users :
          /\ user_keys_smart_cache' = CacheEntry(data, ttl_seconds)
          /\ live_set' = [cached |-> TRUE, data |-> data, at |-> time,
                          ttl |-> ttl_seconds]
    /\ cache_call' = <<"set", None>>
    /\ UNCHANGED <<time, users, user_keys_cache, session_keys, reauthenticated>>
    /\ cache_frame

\* SmartCache.invalidate, under the lock (db.py 70-72): "self._cache.pop".
invalidate == NoEntry

\* login_user with valid credentials (dashboard.py 143-167): the cookie, and
\* "_user_keys_smart_cache.invalidate(user["id"])".
login_user ==
    /\ user_keys_smart_cache' = invalidate
    /\ live_set' = NoSet
    /\ reauthenticated' = TRUE
    /\ cache_call' = <<"invalidate", None>>
    /\ UNCHANGED <<time, users, user_keys_cache, session_keys>>
    /\ cache_frame

\* BotRunner.get_session with BotRunner.get_user_keys (bot_runner.py 69-100), the
\* first step of a runner's set-up: the pair of the class-level dict if the
\* user id is in it, else the SELECT, whose pair is stored in the dict; an
\* exception of the SELECT leaves no session.
get_session ==
    /\ IF user_keys_cache # None
       THEN /\ session_keys' = <<user_keys_cache, "cache">>
            /\ UNCHANGED <<user_keys_cache, reauthenticated>>
       ELSE \E raised \in BOOLEAN :
               IF raised
               THEN /\ session_keys' = <<None, "error">>
                    /\ UNCHANGED <<user_keys_cache, reauthenticated>>
               ELSE /\ session_keys' = <<users, "store">>
                    /\ user_keys_cache' = users
                    /\ reauthenticated' = FALSE
    /\ cache_call' = <<"none", None>>
    /\ UNCHANGED <<time, users, user_keys_smart_cache, live_set>>
    /\ cache_frame

\* The users row gets another pair of keys.
change_keys ==
    /\ users < MaxKeys
    /\ users' = users + 1
    /\ cache_call' = <<"none", None>>
    /\ UNCHANGED <<time, user_keys_smart_cache, user_keys_cache, session_keys,
                   live_set, reauthenticated>>
    /\ cache_frame

\* The wall clock.
tick ==
    /\ \E d \in Ticks : time + d <= MaxTime /\ time' = time + d
    /\ cache_call' = <<"none", None>>
    /\ UNCHANGED <<users, user_keys_smart_cache, user_keys_cache, session_keys,
                   live_set, reauthenticated>>
    /\ cache_frame

NextCache ==
    \/ smart_cache_get
    \/ smart_cache_set
    \/ login_user
    \/ get_session
    \/ change_keys
    \/ tick

SpecCache == InitTrading /\ [][NextCache]_vars

\* ----------------------------------------------------------------- claims
\* Steps of a worker, recognised by the move of its position.
StatusStep(w) == pc[w] = "cleanup_db" /\ pc'[w] = "cleanup_registry"
RegistryStep(w) == pc[w] = "cleanup_registry" /\ pc'[w] = "dead"
LiveStatuses == {"running", "stopping", "error"}

\* C1: when worker w runs its registry clean-up while another handle is
\* registered for the bot id, the entry is left as it is; the clean-up changes
\* the entry only when the registered handle is w's own, and then removes it.
C1_RegistryIdentityGuard ==
    [][\A w \in Workers :
          RegistryStep(w) =>
             /\ running_threads # w => running_threads' = running_threads
             /\ running_threads' # running_threads =>
                   running_threads = w /\ running_threads' = None]_vars

\* C1 witness: a worker has finished its clean-up, found another handle
\* registered, and that handle is still registered and alive.
C1_Witness ==
    /\ registry_cleanup[2] = "other"
    /\ running_threads \notin {None, registry_cleanup[1]}
    /\ is_alive(running_threads)
    /\ pc[registry_cleanup[1]] = "dead"

\* A step that launches a worker and is neither lifespan nor an auto-restart:
\* a start command.
StartStep ==
    /\ phase = "serving"
    /\ \E w \in Workers : pc[w] = "unborn" /\ pc'[w] = "setup"
    /\ \A u \in Workers : ~(pc[u] = "respawn" /\ pc'[u] = "cleanup_db")

\* C2: under start, stop, boot resume, crash-restart and worker clean-up, at most
\* one worker of the bot id is in setup or in the poll loop, and a start command
\* launches a worker only when the persisted status is idle and no alive handle
\* is registered.
C2_DuplicatePrevention ==
    /\ [](Cardinality({w \in Workers : pc[w] \in InRunLogic}) <= 1)
    /\ [][StartStep => status = "idle" /\ ~registered_alive]_vars

\* C2 witness: two threads of the bot id are alive at once, the registered one
\* in the poll loop and an older one still in its clean-up, after a start
\* command was accepted (status running).
C2_Witness ==
    \E a, b \in Workers :
       /\ a # b
       /\ pc[a] \in InCleanup
       /\ pc[b] \in InPolling
       /\ running_threads = b

\* C3: a stop check made while the persisted status is stopping, and that reads
\* it, ends the loop at once (no trading part follows) with exit intention idle;
\* the stop check is due in every iteration; the clean-up of a worker stopped
\* this way persists idle over a running/stopping/error status and removes the
\* registry entry that is its own.
C3_StopScenario ==
    [][\A w \in Workers :
          /\ pc[w] = "check" => since_stop_check[w] >= stop_check_interval
          /\ ( /\ pc[w] = "check" /\ pc'[w] \notin {"check", "cooldown"}
               /\ status = "stopping"
               /\ outcome'[w] # "store_error" )
             => /\ pc'[w] = "cleanup_db"
                /\ ~running'[w]
                /\ stop_event'[w]
                /\ db_status_on_exit'[w] = "idle"
                /\ outcome'[w] = "stop"
          /\ ( /\ StatusStep(w) /\ outcome[w] = "stop"
               /\ status \in LiveStatuses
               /\ status_write' # <<w, "failed">> )
             => status' = "idle"
          /\ (RegistryStep(w) /\ running_threads = w) => running_threads' = None
      ]_vars

\* C3 witness: a worker has written idle as its exit status and then removed its
\* own registry entry.
C3_Witness ==
    \E w \in Workers :
       /\ status_write = <<w, "written">>
       /\ registry_cleanup = <<w, "own">>
       /\ status = "idle"
       /\ running_threads = None
       /\ pc[w] = "dead"

\* C4: a worker whose loop was ended by an exception raised in a poll iteration
\* has gone through the supervisor: by the time it runs its clean-up it has
\* registered a replacement (unless the bot row is gone).
C4_LoopErrorRestarts ==
    \A w \in Workers :
       (outcome[w] = "loop_error" /\ pc[w] \in InCleanup)
          => (replacement[w] # None \/ status = "absent")

\* C5: a worker whose setup failed has registered a replacement by the time it
\* runs its clean-up (unless the bot row is gone).
C5_SetupErrorRestarts ==
    \A w \in Workers :
       (outcome[w] = "setup_error" /\ pc[w] \in InCleanup)
          => (replacement[w] # None \/ status = "absent")

\* C6: a failing setup takes the worker straight from setup to its clean-up with
\* exit intention error; setup is the first thing a thread does, and a worker
\* whose setup failed is never in the poll loop, where the order calls are made;
\* its clean-up persists error over a running/stopping/error status.
C6_SetupErrorFailsFast ==
    [][\A w \in Workers :
          /\ (pc[w] = "setup" /\ outcome'[w] = "setup_error")
             => /\ pc'[w] = "cleanup_db"
                /\ db_status_on_exit'[w] = "error"
                /\ ~running'[w]
          /\ (pc'[w] = "setup" /\ pc[w] # "setup") => pc[w] = "unborn"
          /\ outcome[w] = "setup_error"
             => /\ pc[w] \in InCleanup
                /\ pc'[w] \in InCleanup \cup {"dead"}
                /\ db_status_on_exit[w] = "error"
          /\ ( /\ StatusStep(w) /\ outcome[w] = "setup_error"
               /\ status \in LiveStatuses
               /\ status_write' # <<w, "failed">> )
             => status' = "error"
      ]_vars

\* C6 witness: a worker whose setup failed has persisted error.
C6_Witness ==
    \E w \in Workers :
       /\ outcome[w] = "setup_error"
       /\ pc[w] = "cleanup_registry"
       /\ status_write = <<w, "written">>
       /\ status = "error"

\* C7: the clean-up's status write changes the persisted status only when it is
\* running, stopping or error, and then to the worker's exit intention; an idle
\* status and a deleted row are left as they are.
C7_ExitStatusGuard ==
    [][\A w \in Workers :
          StatusStep(w) =>
             /\ status' # status =>
                   status \in LiveStatuses /\ status' = db_status_on_exit[w]
             /\ status \in {"idle", "absent"} => status' = status
             /\ status_write' = <<w, "written">> =>
                   status \in LiveStatuses /\ status' = db_status_on_exit[w]
      ]_vars

\* C7 witness: a worker with exit intention error ran its status write while
\* the persisted status was idle, and the status is still idle.
C7_Witness ==
    \E w \in Workers :
       /\ pc[w] = "cleanup_registry"
       /\ db_status_on_exit[w] = "error"
       /\ status_write = <<w, "skipped">>
       /\ status = "idle"

\* C8: when worker a runs its status write while a different, alive worker is
\* registered for the bot id and the persisted status is running, the status
\* stays running.
C8_StaleWorkerLeavesRunning ==
    [][\A a \in Workers :
          ( /\ StatusStep(a)
            /\ running_threads \notin {None, a}
            /\ is_alive(running_threads)
            /\ status = "running" )
          => status' = "running"]_vars

\* C9: the registry entry of an alive worker is removed or replaced only by a
\* step of that worker itself.
C9_OnlyOwnerRemoves ==
    [][( /\ running_threads # None
         /\ is_alive(running_threads)
         /\ running_threads' # running_threads )
       => pc'[running_threads] # pc[running_threads]]_vars

\* C10: once a runner's stop event is set, it stays set in every later state of
\* that runner's thread, whatever step is taken (a further set included).
C10_StopEventMonotonic ==
    [][\A w \in Workers :
          (stop_event[w] /\ pc'[w] # "dead") => stop_event'[w]]_vars

\* C10 witness: a runner's stop event is set and is still set a step later.
C10_Witness ==
    \E w \in Workers : stop_event[w] /\ pc[w] = "cleanup_registry"

\* C11: a stop command issued while a worker of the bot id is registered sets
\* that runner's stop event (besides persisting stopping), so that the worker's
\* fast-path wait returns set without a read of the persisted status.
C11_StopSetsEvent ==
    [][( /\ status # "stopping" /\ status' = "stopping"
         /\ running_threads # None )
       => stop_event'[running_threads]]_vars

\* The exchange calls of the current iteration that change orders.
Issued(c) == \E i \in 1..Len(calls) : calls[i] = c

\* C12: in every iteration, ladder orders (place_batch_order) have been issued
\* only in the entry branch (the position fetched at the start of the iteration
\* had size 0), after exactly cancel_all_orders and then the market buy, in that
\* order, and only if the position re-fetched after the market buy was obtained
\* and has size > 0; the market buy carries the take-profit; a re-fetch that
\* fails or reports size 0 ends the iteration with no ladder order.
C12_LadderAfterConfirmedEntry ==
    /\ [](Issued("place_batch_order") =>
            /\ Len(calls) >= 3
            /\ calls[1] = "cancel_all_orders"
            /\ calls[2] = "place_order"
            /\ \A i \in 3..Len(calls) : calls[i] = "place_batch_order"
            /\ pos.fetched /\ pos.size = 0
            /\ updated_position.fetched /\ updated_position.size > 0)
    /\ [][(at = "market" /\ at' = "refetch") =>
              /\ calls = <<"cancel_all_orders">>
              /\ exchange'.pending = base_qty(price)
              /\ exchange'.pending_tp = tp_price(price)
              /\ exchange'.pending_tp # None]_vars
    /\ [][( /\ at = "refetch" /\ at' # "refetch"
            /\ ~(updated_position'.fetched /\ updated_position'.size > 0) )
          => /\ at' = "sleep"
             /\ calls' = calls
             /\ exchange' = exchange]_vars

\* C12 witness: an entry iteration has ended with the whole ladder resting at
\* the exchange, after a re-fetch that showed the position open.
C12_Witness ==
    /\ at = "sleep"
    /\ Issued("place_batch_order")
    /\ updated_position.size > 0
    /\ Len(exchange.order_prices) = max_rebuys

\* The step of the management branch.
ManageStep == at = "manage" /\ at' = "sleep"

\* C13: in the management branch, no set_trading_stop call is issued when the
\* target computed from the position's average price equals the last-applied
\* target; a call is issued only when the position has grown and the computed
\* target differs from the last-applied one; and the last-applied target changes
\* only in a management step whose call succeeded, to the computed target.
C13_TargetUpdateIdempotent ==
    /\ [][ManageStep =>
            /\ tp_price(pos.avg_price) = last_tp_price => calls' = calls
            /\ calls' # calls =>
                  /\ calls' = Append(calls, "set_trading_stop")
                  /\ pos.size > prev_order_size
                  /\ tp_price(pos.avg_price) # last_tp_price
            /\ last_tp_price' # last_tp_price =>
                  /\ calls' = Append(calls, "set_trading_stop")
                  /\ last_tp_price' = tp_price(pos.avg_price)
                  /\ exchange'.take_profit = last_tp_price']_vars
    /\ [][last_tp_price' # last_tp_price => ManageStep]_vars
    /\ [](Issued("set_trading_stop") => calls = <<"set_trading_stop">>)

\* C13 witness: a management iteration on a position that a filled rung has
\* enlarged has ended without a call, the computed target being the last-applied
\* one (which is not the take-profit in force at the exchange).
C13_Witness ==
    /\ at = "sleep"
    /\ calls = <<>>
    /\ pos.size > 0
    /\ pos.size = exchange.size
    /\ pos.avg_price = exchange.avg_price
    /\ prev_order_size = pos.size
    /\ last_tp_price = tp_price(pos.avg_price)
    /\ exchange.filled > 0
    /\ exchange.pending = 0
    /\ exchange.take_profit \notin {None, last_tp_price}

\* The price step of an iteration, failed or successful.
PriceFailed == at = "price" /\ error_retries' = error_retries + 1
PriceFetched == at = "price" /\ at' = "position"

\* C14: the n-th consecutive failure of the price fetch makes the worker sleep
\* min(2^n, 60) seconds (2, 4, 8 for the first three, never more than 60) and go
\* on with the next iteration, whatever n is; the counter of consecutive
\* failures changes in no other way than by one per failure and to 0 by a
\* successful fetch.
C14_PriceFetchBackoff ==
    /\ [][PriceFailed =>
            /\ sleep_time' = IF 2^(error_retries') <= 60
                             THEN 2^(error_retries') ELSE 60
            /\ error_retries' = 1 => sleep_time' = 2
            /\ error_retries' = 2 => sleep_time' = 4
            /\ error_retries' = 3 => sleep_time' = 8
            /\ sleep_time' <= 60
            /\ \A w \in Workers : pc[w] = "trade" =>
                  /\ pc'[w] = "wait"
                  /\ running'[w] = running[w]
                  /\ db_status_on_exit'[w] = db_status_on_exit[w]
            /\ calls' = calls]_vars
    /\ [][PriceFetched => error_retries' = 0 /\ price' \in Prices]_vars
    /\ [][error_retries' # error_retries => PriceFailed \/ PriceFetched]_vars
    /\ [][(at = "price" /\ at' = "price"
            /\ \E w \in Workers : pc[w] = "trade" /\ pc'[w] = "wait")
          => PriceFailed]_vars

\* C14 witness: the sixth failure in a row has been answered with the capped
\* sleep of 60 seconds and the worker is back at the head of the loop.
C14_Witness ==
    /\ error_retries = 6
    /\ sleep_time = 60
    /\ at = "price"
    /\ \E w \in Workers : pc[w] = "wait" /\ running[w]

\* The ladder of section "Calculate rebuy ladder prices and quantities" in
\* closed form: rung n (from 1) of a cycle entered at price p.
LadderPrices(p) ==
    [n \in 1..max_rebuys |->
        format_price(mul(float(p), pow(one_minus_percent(bot.rebuy), n)))]
LadderSizes(p) ==
    [n \in 1..max_rebuys |->
        format_qty(mul(quot(float(bot.start_size), float(p)),
                       pow(bot.multiplier, n)))]
IsPrefix(s, t) == Len(s) <= Len(t) /\ s = SubSeq(t, 1, Len(s))

\* C15: the ladder of a position cycle has exactly max_rebuys rungs, rung n
\* being truncate(price * (1 - rebuy/100)^n) and truncate(initial_qty *
\* multiplier^n) for the price polled in the entry iteration and initial_qty =
\* start_size / price; the lists hold nothing of an earlier cycle, and the
\* orders placed are rungs of this ladder, in order.
C15_LadderPerCycle ==
    /\ [](/\ Len(rebuy_prices) \in {0, max_rebuys}
          /\ Len(rebuy_sizes) = Len(rebuy_prices))
    /\ [](at \in {"market", "refetch", "ladder"} =>
            /\ price \in Prices
            /\ rebuy_prices = LadderPrices(price)
            /\ rebuy_sizes = LadderSizes(price))
    /\ [][(at = "ladder" /\ at' # "ladder") =>
            /\ IsPrefix(exchange'.order_prices, LadderPrices(price))
            /\ IsPrefix(exchange'.order_sizes, LadderSizes(price))
            /\ Len(exchange'.order_prices) = Len(exchange'.order_sizes)
            /\ at' = "sleep" => Len(exchange'.order_prices) = max_rebuys]_vars
    /\ [][rebuy_prices' # rebuy_prices \/ rebuy_sizes' # rebuy_sizes
            => at = "entry"]_vars

\* C15 witness: a later cycle's ladder is complete at the exchange; the runner
\* has applied a target in an earlier cycle, whose ladder was computed at the
\* other price.
C15_Witness ==
    /\ at = "sleep"
    /\ Issued("place_batch_order")
    /\ last_tp_price # None
    /\ price = 80
    /\ last_tp_price = tp_price(40)
    /\ rebuy_prices = LadderPrices(price)
    /\ exchange.order_prices = rebuy_prices
    /\ exchange.order_sizes = LadderSizes(price)

\* The value of a rung before format_price / format_qty, as a fraction of units.
raw_price(n) == mul(float(price), pow(one_minus_percent(bot.rebuy), n))
raw_qty(n) == mul(quot(float(bot.start_size), float(price)), pow(bot.multiplier, n))
Rungs == 1..Len(rebuy_prices)

\* C16 as stated: for multiplier > 1 and rebuy > 0 and every tick size and lot
\* step, the truncated ladder has strictly decreasing prices and strictly
\* increasing quantities from rung to rung.
C16_StrictlyMonotone ==
    (bot.multiplier[1] > bot.multiplier[2] /\ bot.rebuy > 0) =>
        \A n \in Rungs : n + 1 \in Rungs =>
            /\ rebuy_prices[n + 1] < rebuy_prices[n]
            /\ rebuy_sizes[n + 1] > rebuy_sizes[n]

\* C16 amended: for multiplier > 1 and 0 < rebuy <= 100 and every tick size and
\* lot step, the truncated ladder is non-increasing in price and non-decreasing
\* in quantity from rung to rung: neighbours that truncation maps to the same
\* value are equal.
C16_Monotone ==
    (bot.multiplier[1] > bot.multiplier[2] /\ bot.rebuy > 0 /\ bot.rebuy <= 100) =>
        /\ Len(rebuy_sizes) = Len(rebuy_prices)
        /\ \A n \in Rungs :
              /\ rebuy_prices[n] = format_price(raw_price(n))
              /\ rebuy_sizes[n] = format_qty(raw_qty(n))
        /\ \A n \in Rungs : n + 1 \in Rungs =>
              /\ rebuy_prices[n + 1] <= rebuy_prices[n]
              /\ rebuy_sizes[n + 1] >= rebuy_sizes[n]

\* C16 witness: a ladder for multiplier > 1 and rebuy > 0 in which two
\* neighbouring rungs have the same positive price after truncation.
C16_Witness ==
    /\ bot.multiplier[1] > bot.multiplier[2]
    /\ bot.rebuy > 0
    /\ bot.rebuy <= 100
    /\ \E n \in Rungs :
          /\ n + 1 \in Rungs
          /\ rebuy_prices[n + 1] = rebuy_prices[n]
          /\ rebuy_prices[n] > 0

\* C17: format_price and format_qty cut toward zero to a multiple of the tick
\* size and of the lot step: the result is such a multiple, is not larger than
\* the input, and formatting it again returns it unchanged.
C17_TruncationToStep ==
    \A n \in Rungs :
        /\ rebuy_prices[n] % step_value(tick_size) = 0
        /\ rebuy_sizes[n] % step_value(min_order_qty) = 0
        /\ abs(rebuy_prices[n]) * raw_price(n)[2] <= abs(raw_price(n)[1])
        /\ abs(rebuy_sizes[n]) * raw_qty(n)[2] <= abs(raw_qty(n)[1])
        /\ format_price(float(rebuy_prices[n])) = rebuy_prices[n]
        /\ format_qty(float(rebuy_sizes[n])) = rebuy_sizes[n]

\* What a get returns according to the calls made so far: the data of the last
\* set if none was invalidated since and the time is before set time + ttl.
Stored ==
    IF live_set.cached /\ time < live_set.at + live_set.ttl
    THEN live_set.data ELSE None

\* C18: in every interleaving of get, set and invalidate, get returns the stored
\* credentials exactly when an entry was set, has not been invalidated since and
\* the time is strictly before set time + ttl, and a miss otherwise; get leaves
\* the cache as it is.
C18_CacheGet ==
    /\ [](cache_call[1] = "get" =>
            /\ cache_call[2] = Stored
            /\ cache_call[2] # None <=>
                  /\ live_set.cached
                  /\ time < live_set.at + live_set.ttl)
    /\ [][cache_call'[1] = "get" =>
            /\ user_keys_smart_cache' = user_keys_smart_cache
            /\ live_set' = live_set
            /\ time' = time]_vars

\* C18 witness: a get at the very second of expiry has missed, the expired
\* entry still in the cache.
C18_Witness ==
    /\ cache_call = <<"get", None>>
    /\ live_set.cached
    /\ time = live_set.at + live_set.ttl
    /\ user_keys_smart_cache.cached

\* C19: once the credentials have been invalidated by a login, or ttl_seconds
\* have passed, the next get_session of a runner reads the pair from the users
\* row, not from a cache.
C19_RereadAfterInvalidate ==
    [][( /\ session_keys' # session_keys
         /\ \/ reauthenticated
            \/ live_set.cached /\ time >= live_set.at + live_set.ttl )
         => session_keys'[2] # "cache"]_vars

\* C20: in percentage-of-equity mode the entry branch fetches the account's
\* equity before it cancels or places any order, and an iteration whose equity
\* fetch failed issues no order call; in absolute mode the market order is for
\* format_qty(start_size / price).
C20_SizingModes ==
    /\ []((bot.start_type = "percent_equity" /\ Issued("cancel_all_orders"))
            => calls[1] = "get_wallet_balance")
    /\ [][(at = "market" /\ at' = "refetch") =>
            /\ bot.start_type = "percent_equity" => Issued("get_wallet_balance")
            /\ bot.start_type = "USDT" =>
                  exchange'.pending =
                     format_qty(quot(float(bot.start_size), float(price)))]_vars


\* ------------------------------------------- start_bot statement by statement
\* The row lock of "SELECT ... FOR UPDATE": held by start_bot's transaction
\* from its SELECT to its commit or rollback.
row_locked == start_pc # "none"

\* BEGIN; SELECT * FROM bots WHERE id AND status = 'idle' FOR UPDATE.  No row:
\* ROLLBACK and 404, which changes nothing.
start_bot_select ==
    /\ phase = "serving"
    /\ start_pc = "none"
    /\ delete_pc = "none"
    /\ status = "idle"
    /\ start_pc' = "acquire"
    /\ UNCHANGED <<running_threads_lock, bots_row, bot_data, updated_bot_data,
                   boot_result>>
    /\ UNCHANGED <<lifecycle_vars, rest_vars>>

\* with running_threads_lock: the is_alive test picks the branch.
start_bot_acquire ==
    /\ start_pc = "acquire"
    /\ running_threads_lock = "free"
    /\ HasFreeHandle
    /\ running_threads_lock' = "start_bot"
    /\ start_pc' = IF registered_alive THEN "rollback" ELSE "update"
    /\ UNCHANGED <<bots_row, bot_data, updated_bot_data, boot_result>>
    /\ UNCHANGED <<lifecycle_vars, rest_vars>>

\* cur.execute("ROLLBACK;") inside the with block, then HTTPException(400)
\* leaves the block.
start_bot_rollback ==
    /\ start_pc = "rollback"
    /\ start_pc' = "none"
    /\ running_threads_lock' = "free"
    /\ UNCHANGED <<bots_row, bot_data, updated_bot_data, boot_result>>
    /\ UNCHANGED <<lifecycle_vars, rest_vars>>

\* cur.execute("UPDATE bots SET status = 'running' ..."); conn.commit(), both
\* inside the with block.  An error of the store leaves the block and the
\* transaction is dropped.
start_bot_update ==
    /\ start_pc = "update"
    /\ \E ok \in BOOLEAN :
          IF ok
          THEN /\ status' = "running"
               /\ start_pc' = "launch"
               /\ UNCHANGED running_threads_lock
          ELSE /\ start_pc' = "none"
               /\ running_threads_lock' = "free"
               /\ UNCHANGED status
    /\ UNCHANGED <<phase, running_threads, delete_pc, pc, runner_vars>>
    /\ UNCHANGED <<bots_row, bot_data, updated_bot_data, boot_result>>
    /\ UNCHANGED rest_vars

\* runner = BotRunner(bot) ... thread.start(), and the end of the with block.
start_bot_launch ==
    /\ start_pc = "launch"
    /\ launch(NewHandle, bots_row)
    /\ start_pc' = "none"
    /\ running_threads_lock' = "free"
    /\ UNCHANGED <<phase, status, delete_pc, runner_vars>>
    /\ UNCHANGED <<bots_row, updated_bot_data, boot_result>>
    /\ UNCHANGED rest_vars

\* The statements of the other threads that wait for the row lock: stop_bot's
\* and delete_bot's SELECT ... FOR UPDATE, delete_bot's DELETE and the UPDATE
\* of the finally block.
stop_bot_row_free == ~row_locked /\ stop_bot

delete_bot_stop_row_free == ~row_locked /\ delete_bot_stop

delete_bot_row_row_free == ~row_locked /\ delete_bot_row

cleanup_status_row_free(w) == ~row_locked /\ cleanup_status(w)

\* The blocks of the runner that wait for running_threads_lock.
respawn_lock_free(w) == running_threads_lock = "free" /\ respawn(w)

cleanup_registry_lock_free(w) == running_threads_lock = "free" /\ cleanup_registry(w)

NextLock ==
    \/ lifespan
    \/ start_bot_select
    \/ start_bot_acquire
    \/ start_bot_rollback
    \/ start_bot_update
    \/ start_bot_launch
    \/ stop_bot_row_free
    \/ delete_bot_stop_row_free
    \/ delete_bot_row_row_free
    \/ \E w \in Workers : setup(w)
    \/ \E w \in Workers : wait_stop_event(w)
    \/ \E w \in Workers : check_stop_signal(w)
    \/ \E w \in Workers : trade(w)
    \/ \E w \in Workers : except_handler(w)
    \/ \E w \in Workers : reload_bot(w)
    \/ \E w \in Workers : respawn_lock_free(w)
    \/ \E w \in Workers : cleanup_status_row_free(w)
    \/ \E w \in Workers : cleanup_registry_lock_free(w)

SpecLock == Init /\ [][NextLock]_vars

\* A statement of the persistent store that start_bot's thread executes next.
start_bot_store_call == start_pc \in {"update", "rollback"}

\* C21: the registry lock is never held across an I/O call: in no reachable
\* state does the thread that holds running_threads_lock have a statement of
\* the persistent store in progress.
C21_NoIOUnderLock ==
    running_threads_lock = "start_bot" => ~start_bot_store_call


\* C22: the exit intention of a worker is error from the start of run until its
\* setup has succeeded and turns from error to idle in the step that completes
\* the setup and in no other; an exit caused by a stop request (the stop event
\* found set, or the status stopping read) leaves with intention idle, and its
\* status write persists idle, never error.
C22_ExitIntention ==
    [][\A w \in Workers :
          /\ pc[w] \in {"unborn", "setup"} => db_status_on_exit[w] = "error"
          /\ pc[w] = "setup" /\ pc'[w] = "wait" => db_status_on_exit'[w] = "idle"
          /\ db_status_on_exit[w] = "error" /\ db_status_on_exit'[w] = "idle"
                => pc[w] = "setup" /\ pc'[w] = "wait"
          /\ outcome'[w] = "stop" /\ pc'[w] = "cleanup_db"
                => db_status_on_exit'[w] = "idle"
          /\ StatusStep(w) /\ outcome[w] = "stop"
                => /\ status_write'[2] = "written" => status' = "idle"
                   /\ status' \in {status, "idle"}]_vars

\* C22 witness: a worker that left the loop on a stop request has written idle
\* over the status.
C22_Witness ==
    \E w \in Workers :
       /\ pc[w] = "cleanup_registry"
       /\ outcome[w] = "stop"
       /\ db_status_on_exit[w] = "idle"
       /\ status_write = <<w, "written">>
       /\ status = "idle"


\* ------------------------------------------------ editing a bot's settings
\* The model follows the settings through MaxEdits accepted edits.
MaxEdits == 1

\* edit_bot: "SELECT status, user_id ... FOR UPDATE"; rejected without a row
\* or when the status is running; else UPDATE of the given columns and commit.
edit_bot ==
    /\ phase = "serving"
    /\ delete_pc = "none"
    /\ status \notin {"absent", "running"}
    /\ bots_row <= MaxEdits
    /\ bots_row' = bots_row + 1
    /\ UNCHANGED <<running_threads_lock, start_pc, bot_data, updated_bot_data,
                   boot_result>>
    /\ UNCHANGED <<lifecycle_vars, rest_vars>>

\* The commands and the runner's steps after the boot, from a bot that runs.
NextRestart ==
    \/ start_bot
    \/ stop_bot
    \/ edit_bot
    \/ delete_bot_stop
    \/ delete_bot_row
    \/ \E w \in Workers : setup(w)
    \/ \E w \in Workers : wait_stop_event(w)
    \/ \E w \in Workers : check_stop_signal(w)
    \/ \E w \in Workers : trade(w)
    \/ \E w \in Workers : except_handler(w)
    \/ \E w \in Workers : reload_bot(w)
    \/ \E w \in Workers : respawn(w)
    \/ \E w \in Workers : cleanup_status(w)
    \/ \E w \in Workers : cleanup_registry(w)

SpecRestart == InitTrading /\ [][NextRestart]_vars

\* The worker w has read the row after its cooldown / has gone through the
\* branch "if updated_bot_data:".
ReloadStep(w) == pc[w] = "cooldown" /\ pc'[w] # "cooldown"
RespawnStep(w) == pc[w] = "respawn" /\ pc'[w] = "cleanup_db"
Launched(n) == pc[n] = "unborn" /\ pc'[n] = "setup"

\* C23: the replacement runner of a restart is built from the row as the
\* store held it when the crashed runner read it after its cooldown, not from
\* the crashed runner's own configuration; when there is no row at that time
\* the crashed runner goes to its clean-up and no replacement is registered or
\* started.
C23_RestartConfiguration ==
    [][\A w \in Workers :
          /\ ReloadStep(w) /\ pc'[w] = "respawn"
                => status # "absent" /\ updated_bot_data'[w] = <<"row", bots_row>>
          /\ ReloadStep(w) /\ status = "absent"
                => /\ pc'[w] = "cleanup_db"
                   /\ running_threads' = running_threads
                   /\ \A n \in Workers : ~Launched(n)
          /\ RespawnStep(w)
                => \E n \in Workers :
                      /\ Launched(n)
                      /\ running_threads' = n
                      /\ updated_bot_data[w][1] = "row"
                      /\ bot_data'[n] = updated_bot_data[w][2]]_vars

\* C23 witness: a replacement is running with settings that differ from those
\* of the crashed runner that spawned it.
C23_Witness ==
    \E w \in Workers :
       /\ replacement[w] # None
       /\ pc[w] = "cleanup_db"
       /\ bot_data[replacement[w]] = bots_row
       /\ bot_data[replacement[w]] # bot_data[w]


\* The positions of run before its finally block.
BeforeCleanup == InRunLogic \cup {"cooldown", "respawn"}

\* C24: on every way out of run (failed setup, stop, loop error, crash with or
\* without a replacement) the worker goes through the guarded status write and
\* then through the registry reconciliation, which runs whether the write
\* succeeded, was skipped or failed; so the registry never holds the handle of
\* a terminated worker.
C24_CleanupAlwaysRuns ==
    /\ [](running_threads # None => pc[running_threads] # "dead")
    /\ [][\A w \in Workers :
             /\ pc[w] \in BeforeCleanup /\ pc'[w] \notin BeforeCleanup
                   => pc'[w] = "cleanup_db"
             /\ pc[w] = "cleanup_db" /\ pc'[w] # "cleanup_db"
                   => /\ pc'[w] = "cleanup_registry"
                      /\ status_write'[1] = w
                      /\ status_write'[2] \in {"written", "skipped", "failed"}
             /\ pc[w] = "cleanup_registry" /\ pc'[w] # "cleanup_registry"
                   => /\ pc'[w] = "dead"
                      /\ running_threads' # w
             /\ pc[w] # "dead" /\ pc'[w] = "dead"
                   => pc[w] = "cleanup_registry"]_vars

\* C24 witness: a worker whose status write failed has terminated after
\* removing its own registry entry.
C24_Witness ==
    \E w \in Workers :
       /\ pc[w] = "dead"
       /\ status_write = <<w, "failed">>
       /\ registry_cleanup = <<w, "own">>
       /\ running_threads = None


\* The position fetch of this step failed.
PositionFailed == at = "position" /\ at' = "price"

\* C25: a failed price fetch or position fetch ends the iteration with no call
\* that places or cancels an order or sets the target, and leaves the previous
\* observed size, the last applied target, the ladder and the account as they
\* were; a failed position fetch also leaves the error counter as it was.
C25_FailedFetchFrame ==
    [][(PriceFailed \/ PositionFailed) =>
          /\ at' = "price"
          /\ \E w \in Workers : pc[w] = "trade" /\ pc'[w] = "wait"
          /\ calls' = calls
          /\ prev_order_size' = prev_order_size
          /\ last_tp_price' = last_tp_price
          /\ rebuy_prices' = rebuy_prices
          /\ rebuy_sizes' = rebuy_sizes
          /\ exchange' = exchange
          /\ PositionFailed => error_retries' = error_retries]_vars

\* C25 witness: with a ladder resting and a position open, an iteration has
\* just ended on a failed price fetch (the counter is up, which no other step
\* does) and everything is still in place.
C25_Witness ==
    /\ at = "price"
    /\ pos = NoPosition
    /\ error_retries > 0
    /\ sleep_time = backoff(error_retries)
    /\ exchange.size > 0
    /\ prev_order_size = exchange.size
    /\ Len(rebuy_prices) > 0
    /\ Len(exchange.order_prices) = Len(rebuy_prices)


\* C26: a target update that failed with an error other than "not modified" is
\* retried: the next pass through the management branch that observes the
\* position of the failed update (same size, same average price) issues
\* set_trading_stop again.
C26_FailedUpdateRetried ==
    [][( /\ ManageStep
         /\ tp_update.result = "error"
         /\ pos.size = tp_update.size
         /\ pos.avg_price = tp_update.avg_price )
       => calls' = Append(calls, "set_trading_stop")]_vars

\* The management branch has observed a position larger than the previous
\* observed size.
GrowthStep == ManageStep /\ pos.size > prev_order_size

\* C27: a management pass that observes a size above the previous observed
\* size ends with the previous observed size equal to the size observed,
\* whether the target update succeeded, was skipped as unchanged, was answered
\* "not modified" or failed otherwise; the worker stays in the poll loop and
\* its exit intention and running flag are as before.
C27_ObservedSizeRecorded ==
    [][GrowthStep =>
          /\ prev_order_size' = pos.size
          /\ \A w \in Workers :
                /\ pc'[w] = pc[w]
                /\ running'[w] = running[w]
                /\ db_status_on_exit'[w] = db_status_on_exit[w]
          /\ at' = "sleep"]_vars

\* C27 witness: the pass has recorded the new size although its target update
\* failed: the position has grown by a fill, the take-profit in force is not
\* the one computed for it, and the runner is at the iteration's last statement.
C27_Witness ==
    /\ at = "sleep"
    /\ tp_update.result = "error"
    /\ tp_update.size = pos.size
    /\ prev_order_size = pos.size
    /\ exchange.filled > 0
    /\ exchange.size = pos.size
    /\ exchange.take_profit # tp_price(pos.avg_price)
    /\ \E w \in Workers : pc[w] = "trade" /\ running[w] /\ db_status_on_exit[w] = "idle"


\* The boot: lifespan up to its yield.
BootStep == phase = "boot" /\ phase' = "serving"

\* C28: at the boot, when the store answers, a bot whose persisted status is
\* running and that has no alive registered worker gets exactly one new
\* worker, built from its row, registered and started in one section under
\* the registry lock; a bot whose status is idle, stopping or error gets none.
C28_BootRecovery ==
    [][BootStep /\ boot_result' # "read_failed" =>
          /\ status' = status
          /\ running_threads_lock = "free" /\ running_threads_lock' = "free"
          /\ IF status = "running" /\ ~registered_alive
             THEN \E n \in Workers :
                     /\ Launched(n)
                     /\ running_threads' = n
                     /\ bot_data'[n] = bots_row
                     /\ \A m \in Workers \ {n} : pc'[m] = pc[m]
             ELSE /\ pc' = pc
                  /\ running_threads' = running_threads]_vars

\* C28 witness: the boot has resumed the running bot; its worker is registered
\* and in its setup.
C28_Witness ==
    /\ boot_result = "resumed"
    /\ status = "running"
    /\ running_threads # None
    /\ pc[running_threads] = "setup"
    /\ Cardinality({w \in Workers : is_alive(w)}) = 1


C30_StopSurvivesRestart ==
    [][\A w \in Workers :
          ( /\ StatusStep(w)
            /\ outcome[w] = "crash"
            /\ status = "stopping"
            /\ replacement[w] # None
            /\ pc[replacement[w]] \in InRunLogic
            /\ outcome[replacement[w]] # "stop" )
          => status' = "stopping"]_vars


\* -------------------------------------------------- threads that keep running
\* A step of the thread with handle w.  The exception that escapes _run_logic
\* (except_handler) is the environment's doing and is not among them.
runner_step(w) ==
    \/ setup(w)
    \/ wait_stop_event(w)
    \/ check_stop_signal(w)
    \/ trade(w)
    \/ reload_bot(w)
    \/ respawn(w)
    \/ cleanup_status(w)
    \/ cleanup_registry(w)

\* Every started thread is scheduled again and again; commands arrive or not.
SpecLive == Init /\ [][Next]_vars /\ \A w \in Workers : WF_vars(runner_step(w))

\* C31: the persisted status never stays stopping forever: whenever it is
\* stopping, with or without a live worker of the bot, it later becomes idle
\* or error, so that the bot can be started again.
C31_StoppingEnds ==
    [](status = "stopping" => <>(status \in {"idle", "error"}))


\* C32: once delete_bot has completed (the row is gone), a worker of the bot
\* observes the deletion at its next stop check and leaves the loop: a stop
\* check that reads the store after the deletion is not followed by the
\* trading part, so no further exchange call is issued.
C32_DeletedBotStopsTrading ==
    [][\A w \in Workers :
          ( /\ pc[w] = "check" /\ pc'[w] # "check"
            /\ status = "absent"
            /\ delete_pc = "none"
            /\ outcome'[w] \notin {"store_error", "crash"} )
          => pc'[w] # "trade"]_vars


\* C33: a worker whose slow-path stop check could not read the persisted
\* status issues no further call that places or cancels an order or sets a
\* target (it leaves the loop before the trading part of that iteration, with
\* exit intention error): from the failed check on, the log of such calls does
\* not grow.
C33_NoTradingAfterStoreError ==
    [][\A w \in Workers :
          outcome[w] = "store_error" /\ db_status_on_exit[w] = "error"
             => Len(calls') <= Len(calls)]_vars


\* C34: across position cycles, a management pass that handles a size increase
\* of the position as it stands at the exchange, without an exchange error,
\* leaves in force at the exchange the target computed from the position's
\* average price; a target remembered from an earlier cycle does not make the
\* pass skip the update while the exchange holds another target.
C34_TargetInForce ==
    [][( /\ GrowthStep
         /\ tp_update'.result # "error"
         /\ exchange.size = pos.size
         /\ exchange.avg_price = pos.avg_price )
       => exchange'.take_profit = tp_price(pos.avg_price)]_vars


\* The market buy of the entry branch has been submitted in this step.
MarketStep == at = "market" /\ at' = "refetch"

\* C35: at most one market entry order per position cycle: a market buy is
\* submitted only when no earlier market buy of the runner is outstanding,
\* that is, the position opened by the last one has been observed open and
\* then observed closed, also when the re-fetch after that order failed or
\* still reported size 0.
C35_OneEntryPerCycle ==
    [][MarketStep => market_order = "none"]_vars

====
